---- MODULE Spec2Model ----
(***************************************************************************)
(* Translation engine of cli_fuse: the in-memory index (forward map,       *)
(* reverse map, directory structure, virtual-dir set), the durable store,  *)
(* the mutations of the serializer, the watcher's rebuild and the          *)
(* read-side facade (getattr, access, readdir).                            *)
(*                                                                         *)
(* A path is the sequence of its components: "/" is << >>, "/a/b" is       *)
(* <<"a", "b">>.  All paths are absolute and normalised, so the string     *)
(* test  d.startswith(p + '/')  is "p is a proper prefix of d".            *)
(***************************************************************************)
EXTENDS Integers, Sequences, FiniteSets, TLC

\* ------------------------------------------------------------------ bounds
\* Longest translated path the admin surface is given.
MaxDepth == 4
\* Longest presented path the kernel binding hands to a read operation.
MaxReadDepth == 2
\* Longest translated path in the runs of concurrent readers and writers.
MaxConcDepth == 3

\* ------------------------------------------------------------------- paths
Names == {"a", "b"}

RootPath == << >>

AllPaths == UNION {[1..n -> Names] : n \in 1..MaxDepth}

\* Translated paths offered to add_translation: every component but the last
\* is "a" (a chain of directories /a, /a/a, ... with two names in each).
TransPaths == {p \in AllPaths : \A i \in 1..(Len(p) - 1) : p[i] = "a"}

\* Originals offered to add_translation / remove_translation; a translated
\* path offered with an original is a path other than that original.
Originals == {<<"a">>, <<"b">>}

\* Names with a leading dot, and names ending in .grab/.plexmatch/.plexignore.
DotNames == {".grab", ".plexmatch", ".plexignore"}
PlexSuffixNames == {".grab", ".plexmatch", ".plexignore"}

\* Presented paths handed to the facade's read operations.
ReadPaths ==
    {p \in TransPaths : Len(p) <= MaxReadDepth} \cup {RootPath, <<"a", ".plexmatch">>}

dirname(p) == IF Len(p) = 0 THEN p ELSE SubSeq(p, 1, Len(p) - 1)

basename(p) == IF Len(p) = 0 THEN "" ELSE p[Len(p)]

\* The proper ancestors of t other than the root.
ProperAncestors(t) == {SubSeq(t, 1, k) : k \in 1..(Len(t) - 1)}

\* d.startswith(p + '/')
StartsWithDir(d, p) == Len(d) > Len(p) /\ SubSeq(d, 1, Len(p)) = p

\* os.path.relpath(path, parent) for parent an ancestor of path
relpath(path, parent) == SubSeq(path, Len(parent) + 1, Len(path))

\* ------------------------------------------------------------ backing tree
\* The backing root and the files and directories under it (platform paths).
BackingRoot == <<"root">>

full_path(root, partial) == root \o partial

BackingDirs == {BackingRoot, BackingRoot \o <<"a">>, BackingRoot \o <<"m">>}
MediaFiles == {BackingRoot \o <<"m", n>> : n \in {"x", "y", "z"}}
BackingFiles == {BackingRoot \o <<"a", "b">>} \cup MediaFiles

exists(fp) == fp \in BackingDirs \cup BackingFiles
isdir(fp) == fp \in BackingDirs
listdir(fp) == {basename(c) : c \in {x \in BackingDirs \cup BackingFiles :
                                        Len(x) = Len(fp) + 1 /\ dirname(x) = fp}}

\* ------------------------------------------------------------------- state
VARIABLES
    store,                  \* rows of the table, in rowid order: <<original, translated>>
    translations,           \* forward map
    reverse_translations,   \* reverse map
    dir_structure,          \* parent path -> set of child basenames
    virtual_dirs,           \* set of synthesized directory paths
    ret,                    \* the last completed call and what it returned
    wpc,                    \* where the thread holding fs_lock is in its mutation or rebuild
    warg,                   \* that mutation's arguments (the rows still to load, for a rebuild)
    wpre,                   \* the index as it was when that mutation or rebuild began
    rpc,                    \* where the VFS caller is in its read operation
    rcall,                  \* the read operation in progress
    racc,                   \* the directory entries readdir has collected so far
    allowed,                \* results of rcall on the indexes committed while it runs
    overlap                 \* how many mutations or rebuilds rcall has run alongside: 0, 1, 2 for more

VARIABLES
    db_queue,               \* the serializer's task queue, oldest task first
    running,                \* the facade's running flag
    wk,                     \* where db_worker is: "top" of its loop, at "get", or "exited"
    cpc,                    \* per admin caller: "idle", or "waiting" on its reply slot
    reply,                  \* per admin caller: the content of its reply slot
    got,                    \* per admin caller: the results its calls have returned, in order
    enq,                    \* every task put on db_queue so far, in the order of the puts
    dpc                     \* where destroy() is: "idle", "flagged", "joining"

VARIABLES
    last_mtime,             \* the store mtime the watcher has recorded as observed
    db_mtime,               \* the mtime of the store file
    upc,                    \* where check_for_updates is: "probe", "select", "fetch", "record", "wait"
    wm,                     \* the watcher's local mtime
    cursor,                 \* the rows self.cursor has still to hand out
    lpc                     \* where _list_translations is: "idle" or "fetch"

VARIABLES
    handles,                \* FileHandleCache.handles in insertion order: path, reader, last touch
    readers,                \* the readers that are open: <<path, thread that opened it>>
    memo,                   \* the lru_cache of _get_full_path: presented path -> backing path
    touched,                \* the cached paths, the one whose latest get is oldest first
    tpc,                    \* per VFS thread: where it is in FileHandleCache.get
    targ                    \* per VFS thread: the path it runs FileHandleCache.get for

VARIABLES
    backups,                \* the translations_backup_* files in backup_dir, by timestamp
    bpc,                    \* where periodic_backup is: "sleep" between cycles, or at "prune"
    cycles,                 \* how many snapshot cycles have completed
    stamps,                 \* the timestamps of all snapshots taken so far
    deleted                 \* the files the latest cycle has removed

VARIABLES
    pos,                    \* the file position of each reader that was opened
    reading                    \* per VFS thread: the read call it is in, with its reader

index == <<translations, reverse_translations, dir_structure, virtual_dirs>>
serializer == <<db_queue, running, wk, cpc, reply, got, enq, dpc>>
\* The state outside the index, its store and the calls that read and write them.
watch == <<last_mtime, db_mtime, upc, wm, cursor, lpc>>
cache == <<handles, readers, memo, touched, tpc, targ>>
snapshot == <<backups, bpc, cycles, stamps, deleted>>
offsets == <<pos, reading>>
ext == <<serializer, watch, cache, snapshot, offsets>>
writer == <<wpc, warg, wpre>>
reader == <<rpc, rcall, racc, allowed, overlap>>
vars == <<store, translations, reverse_translations, dir_structure, virtual_dirs, ret,
          wpc, warg, wpre, rpc, rcall, racc, allowed, overlap, ext>>

EmptyMap == [k \in {} |-> k]

Put(f, k, v) == [x \in DOMAIN f \cup {k} |-> IF x = k THEN v ELSE f[x]]
Pop(f, k) == [x \in DOMAIN f \ {k} |-> f[x]]

Idx(tr, rev, ds, vd) == [tr |-> tr, rev |-> rev, ds |-> ds, vd |-> vd]
NoCall == [op |-> "none"]
EmptyIdx == Idx(EmptyMap, EmptyMap, EmptyMap, {})
Live == Idx(translations, reverse_translations, dir_structure, virtual_dirs)

\* --------------------------------------------------------- path utilities
should_hide(path, tr) ==
    path \in DOMAIN tr \/ \E orig \in DOMAIN tr : StartsWithDir(path, orig)

RECURSIVE add_virtual_dirs(_, _)
add_virtual_dirs(vd, path) ==
    IF path = RootPath THEN vd
    ELSE add_virtual_dirs(vd \cup {path}, dirname(path))

RECURSIVE remove_virtual_dirs(_, _, _)
remove_virtual_dirs(vd, ds, path) ==
    IF path = RootPath THEN vd
    ELSE IF ~ \E d \in DOMAIN ds : StartsWithDir(d, path)
         THEN remove_virtual_dirs(vd \ {path}, ds, dirname(path))
         ELSE vd

\* ----------------------------------------------------------- durable store
\* INSERT OR REPLACE: the conflicting row is deleted, the new row gets a fresh rowid.
InsertOrReplace(rows, o, t) ==
    SelectSeq(rows, LAMBDA r : r[1] # o) \o <<<<o, t>>>>

DeleteRow(rows, o) == SelectSeq(rows, LAMBDA r : r[1] # o)

StoreKeys == {store[i][1] : i \in 1..Len(store)}

\* ------------------------------------------------------------------- index
\* dir_structure[dir].discard(name), dropping the entry when it becomes empty
DiscardChild(ds, dir, name) ==
    IF dir \in DOMAIN ds
    THEN IF ds[dir] \ {name} = {} THEN Pop(ds, dir)
         ELSE Put(ds, dir, ds[dir] \ {name})
    ELSE ds

\* dir_structure[dir].add(name) on a defaultdict(set)
AddChild(ds, dir, name) ==
    Put(ds, dir, (IF dir \in DOMAIN ds THEN ds[dir] ELSE {}) \cup {name})

\* Unlink without the retraction of the virtual directories.
UnlinkKeepVirtualDirs(idx, old_translated) ==
    Idx(idx.tr, Pop(idx.rev, old_translated),
        DiscardChild(idx.ds, dirname(old_translated), basename(old_translated)), idx.vd)

\* The part of a mutation that takes a pairing (o, t') out of the index.
Unlink(idx, old_translated) ==
    LET rev == Pop(idx.rev, old_translated)
        ds  == DiscardChild(idx.ds, dirname(old_translated), basename(old_translated))
    IN  Idx(idx.tr, rev, ds, remove_virtual_dirs(idx.vd, ds, dirname(old_translated)))

\* The part of a mutation or of a rebuild that installs a pairing (o, t).
Install(idx, original, translated) ==
    Idx(Put(idx.tr, original, translated),
        Put(idx.rev, translated, original),
        AddChild(idx.ds, dirname(translated), basename(translated)),
        add_virtual_dirs(idx.vd, dirname(translated)))

AddIndex(idx, original, translated) ==
    Install(IF original \in DOMAIN idx.tr THEN Unlink(idx, idx.tr[original]) ELSE idx,
            original, translated)

\* RemoveIndex without its membership test: translations.pop(original, original).
RemoveIndexPopDefault(idx, original) ==
    LET u == Unlink(idx, IF original \in DOMAIN idx.tr THEN idx.tr[original] ELSE original)
    IN  Idx(Pop(u.tr, original), u.rev, u.ds, u.vd)

RemoveIndex(idx, original) ==
    IF original \in DOMAIN idx.tr
    THEN LET u == Unlink(idx, idx.tr[original])
         IN  Idx(Pop(u.tr, original), u.rev, u.ds, u.vd)
    ELSE idx

RECURSIVE LoadRows(_, _)
LoadRows(idx, rows) ==
    IF rows = << >> THEN idx
    ELSE LoadRows(Install(idx, Head(rows)[1], Head(rows)[2]), Tail(rows))

Rebuilt(rows) == LoadRows(EmptyIdx, rows)

SetIndex(idx) ==
    /\ translations' = idx.tr
    /\ reverse_translations' = idx.rev
    /\ dir_structure' = idx.ds
    /\ virtual_dirs' = idx.vd

\* ------------------------------------------------------- path resolution
\* path.endswith(('.grab', '.plexmatch', '.plexignore')) or '/.' in path
IsPlex(path) ==
    \/ Len(path) > 0 /\ path[Len(path)] \in PlexSuffixNames
    \/ \E i \in 1..Len(path) : path[i] \in DotNames

\* WalkParents giving up after the immediate parent.
WalkParentsOnce(rev, path, parent) ==
    IF parent # RootPath /\ parent \in DOMAIN rev
    THEN rev[parent] \o relpath(path, parent)
    ELSE path

\* The ancestor walk of _translate_path, from parent upward.
RECURSIVE WalkParents(_, _, _)
WalkParents(rev, path, parent) ==
    IF parent = RootPath THEN path
    ELSE IF parent \in DOMAIN rev
         THEN rev[parent] \o relpath(path, parent)
         ELSE WalkParents(rev, path, dirname(parent))

translate_path(rev, path) ==
    IF path \in DOMAIN rev THEN rev[path]
    ELSE WalkParents(rev, path, dirname(path))

\* ------------------------------------------------------ facade, read side
ENOENT == [kind |-> "ENOENT"]
EINVAL == [kind |-> "EINVAL"]
PlexFile == [kind |-> "file", mode |-> "0644", size |-> 0]
VirtualDir == [kind |-> "dir", mode |-> "0755", nlink |-> 2]
EACCES == [kind |-> "EACCES"]
Permit == [kind |-> "ok"]
Lstat(fp) == [kind |-> "lstat", path |-> fp]

\* getattr from the resolution onward (the path is neither Plex nor virtual)
getattr_backing(rev, path) ==
    LET fp == full_path(BackingRoot, translate_path(rev, path))
    IN  IF exists(fp) THEN Lstat(fp) ELSE ENOENT

getattr(idx, path) ==
    IF IsPlex(path) THEN PlexFile
    ELSE IF path \in idx.vd THEN VirtualDir
    ELSE getattr_backing(idx.rev, path)

\* os.access on the backing tree: everything is readable, nothing is writable.
AccessModes == {"R_OK", "W_OK"}
os_access(fp, mode) == mode = "R_OK"

\* access from the resolution onward; raising FuseOSError(EACCES) names a
\* constant the module never imports, and the error guard turns the
\* resulting exception into EINVAL.
access_backing(rev, path, mode) ==
    LET fp == full_path(BackingRoot, translate_path(rev, path))
    IN  IF ~ exists(fp) THEN ENOENT
        ELSE IF ~ os_access(fp, mode) THEN EINVAL
        ELSE Permit

access(idx, path, mode) ==
    IF IsPlex(path) THEN Permit
    ELSE IF path \in idx.vd THEN Permit
    ELSE access_backing(idx.rev, path, mode)

\* readdir's entries taken from the backing directory
readdir_backing(tr, rev, path) ==
    LET fp == full_path(BackingRoot, translate_path(rev, path))
    IN  IF isdir(fp)
        THEN {d \in listdir(fp) : ~ should_hide(path \o <<d>>, tr)}
        ELSE {}

\* readdir's entries for the virtual directories whose parent is path
readdir_virtual_children(vd, path) ==
    {basename(d) : d \in {x \in vd : dirname(x) = path /\ x # path}}

readdir(idx, path) ==
    {".", ".."}
    \cup (IF path \in idx.vd
          THEN (IF path \in DOMAIN idx.ds THEN idx.ds[path] ELSE {})
          ELSE readdir_backing(idx.tr, idx.rev, path))
    \cup {".grab", ".plexmatch", ".plexignore"}
    \cup readdir_virtual_children(idx.vd, path)

\* Indexing the defaultdict in readdir creates the entry it reads.
readdir_touch(idx, path) ==
    IF path \in idx.vd /\ path \notin DOMAIN idx.ds
    THEN Put(idx.ds, path, {})
    ELSE idx.ds

\* ----------------------------------------------------------------- actions
\* The admin surface's request threads (Flask runs threaded).
Callers == {"c1", "c2"}

NoReply == [kind |-> "empty"]

InitSerializer ==
    /\ db_queue = << >>
    /\ running = TRUE
    /\ wk = "top"
    /\ cpc = [c \in Callers |-> "idle"]
    /\ reply = [c \in Callers |-> NoReply]
    /\ got = [c \in Callers |-> << >>]
    /\ enq = << >>
    /\ dpc = "idle"

InitWatch ==
    /\ last_mtime = 0
    /\ db_mtime = 1
    /\ upc = "probe"
    /\ wm = 0
    /\ cursor = << >>
    /\ lpc = "idle"

\* The threads the kernel binding delivers VFS calls on.
Threads == {"t1", "t2"}

InitOffsets ==
    /\ pos = EmptyMap
    /\ reading = [t \in Threads |-> << >>]

InitCache ==
    /\ handles = << >>
    /\ readers = {}
    /\ memo = EmptyMap
    /\ touched = << >>
    /\ tpc = [t \in Threads |-> "idle"]
    /\ targ = [t \in Threads |-> << >>]

InitSnapshot ==
    /\ backups = {}
    /\ bpc = "sleep"
    /\ cycles = 0
    /\ stamps = {}
    /\ deleted = {}

Init ==
    /\ store = << >>
    /\ translations = EmptyMap
    /\ reverse_translations = EmptyMap
    /\ dir_structure = EmptyMap
    /\ virtual_dirs = {}
    /\ ret = [op |-> "init"]
    /\ wpc = "idle"
    /\ warg = << >>
    /\ wpre = EmptyIdx
    /\ rpc = "idle"
    /\ rcall = NoCall
    /\ racc = {}
    /\ allowed = {}
    /\ overlap = 0
    /\ InitSerializer
    /\ InitWatch
    /\ InitCache
    /\ InitSnapshot
    /\ InitOffsets

\* A call of the serializer and its outcome, as kept in ret;
\* err: the store raised sqlite3.Error inside the call.
Called(op, known, err, val) == [op |-> op, known |-> known, err |-> err, val |-> val]

\* _add_translation with the index updated before the store is written.
AddIndexFirst(original, translated, err) ==
    /\ SetIndex(AddIndex(Live, original, translated))
    /\ store' = IF err THEN store ELSE InsertOrReplace(store, original, translated)
    /\ ret' = Called("add_translation", original \in StoreKeys, err, ~ err)

_add_translation(original, translated, err) ==
    IF err
    THEN /\ UNCHANGED <<store, index>>
         /\ ret' = Called("add_translation", original \in StoreKeys, err, FALSE)
    ELSE /\ store' = InsertOrReplace(store, original, translated)
         /\ SetIndex(AddIndex(Live, original, translated))
         /\ ret' = Called("add_translation", original \in StoreKeys, err, TRUE)

_remove_translation(original, err) ==
    IF err
    THEN /\ UNCHANGED <<store, index>>
         /\ ret' = Called("remove_translation", original \in StoreKeys, err, FALSE)
    ELSE /\ store' = DeleteRow(store, original)
         /\ SetIndex(RemoveIndex(Live, original))
         /\ ret' = Called("remove_translation", original \in StoreKeys, err, TRUE)

_purge_all_translations(err) ==
    IF err
    THEN /\ UNCHANGED <<store, index>>
         /\ ret' = Called("purge_all_translations", store # << >>, err, FALSE)
    ELSE /\ store' = << >>
         /\ SetIndex(EmptyIdx)
         /\ ret' = Called("purge_all_translations", store # << >>, err, TRUE)

\* The watcher's rebuild (also what a cold restart does in the constructor).
load_translations ==
    /\ SetIndex(Rebuilt(store))
    /\ UNCHANGED store
    /\ ret' = [op |-> "load_translations"]

Getattr(path) ==
    /\ ret' = [op |-> "getattr", path |-> path, val |-> getattr(Live, path)]
    /\ UNCHANGED <<store, index, writer, reader, ext>>

Access(path, mode) ==
    /\ ret' = [op |-> "access", path |-> path, mode |-> mode, val |-> access(Live, path, mode)]
    /\ UNCHANGED <<store, index, writer, reader, ext>>

Readdir(path) ==
    /\ ret' = [op |-> "readdir", path |-> path, val |-> readdir(Live, path)]
    /\ dir_structure' = readdir_touch(Live, path)
    /\ UNCHANGED <<store, translations, reverse_translations, virtual_dirs, writer, reader, ext>>

\* Every call runs to completion before the next one starts.
AddTranslation(o, t, err) == _add_translation(o, t, err) /\ UNCHANGED <<writer, reader, ext>>
RemoveTranslation(o, err) == _remove_translation(o, err) /\ UNCHANGED <<writer, reader, ext>>
PurgeAllTranslations(err) == _purge_all_translations(err) /\ UNCHANGED <<writer, reader, ext>>
LoadTranslations == load_translations /\ UNCHANGED <<writer, reader, ext>>

Next ==
    \/ \E o \in Originals : \E t \in TransPaths \ {o}, err \in BOOLEAN :
          AddTranslation(o, t, err)
    \/ \E o \in Originals, err \in BOOLEAN : RemoveTranslation(o, err)
    \/ \E err \in BOOLEAN : PurgeAllTranslations(err)
    \/ LoadTranslations
    \/ \E p \in ReadPaths : Getattr(p)
    \/ \E p \in ReadPaths, m \in AccessModes : Access(p, m)
    \/ \E p \in ReadPaths : Readdir(p)

Spec == Init /\ [][Next]_vars

\* The serializer's mutations alone: no read, no rebuild, no external edit.
NextMut ==
    \/ \E o \in Originals : \E t \in TransPaths \ {o}, err \in BOOLEAN :
          AddTranslation(o, t, err)
    \/ \E o \in Originals, err \in BOOLEAN : RemoveTranslation(o, err)
    \/ \E err \in BOOLEAN : PurgeAllTranslations(err)

SpecMut == Init /\ [][NextMut]_vars

\* ------------------------------------------------- concurrent execution
\* The serializer and the watcher run their mutation or rebuild holding
\* fs_lock from its first statement to its last (wpc # "idle" is "fs_lock is
\* held"), while a VFS caller runs a read operation statement by statement.
\* getattr, access and readdir read virtual_dirs, dir_structure and
\* translations without the lock; only _translate_path takes it.

\* Translated paths offered to the serializer in the concurrent runs: the
\* ones below a directory.
ConcTrans == {p \in TransPaths : 1 < Len(p) /\ Len(p) <= MaxConcDepth}

ReadOps == {"getattr", "access", "readdir"}

\* The presented paths read in the concurrent runs: the directories above
\* the translated paths.
ConcReadPaths == UNION {ProperAncestors(t) : t \in ConcTrans}

ReadCalls ==
    {[op |-> "getattr", path |-> p] : p \in ConcReadPaths}
    \cup {[op |-> "access", path |-> p, mode |-> "R_OK"] : p \in ConcReadPaths}
    \cup {[op |-> "readdir", path |-> p] : p \in ConcReadPaths}

\* What the call returns when it runs alone on index idx.
Result(call, idx) ==
    CASE call.op = "getattr" -> getattr(idx, call.path)
      [] call.op = "access"  -> access(idx, call.path, call.mode)
      [] call.op = "readdir" -> readdir(idx, call.path)

\* The index as of the last completed mutation or rebuild.
Committed == IF wpc = "idle" THEN Live ELSE wpre

\* The mutation or rebuild in progress ends leaving index idx: fs_lock is
\* released, and a read in progress may now answer from idx.
Commit(idx) ==
    /\ SetIndex(idx)
    /\ wpc' = "idle"
    /\ warg' = << >>
    /\ wpre' = EmptyIdx
    /\ allowed' = IF rpc = "idle" THEN allowed ELSE allowed \cup {Result(rcall, idx)}
    /\ UNCHANGED <<rpc, rcall, racc, overlap>>

\* A mutation or rebuild begins: a read in progress now runs alongside it.
Alongside ==
    /\ overlap' = IF rpc = "idle" THEN overlap ELSE IF overlap = 0 THEN 1 ELSE 2
    /\ UNCHANGED <<rpc, rcall, racc, allowed>>

\* _add_translation: the lock is taken and the row written.
AddBegin(original, translated, err) ==
    /\ UNCHANGED ext
    /\ wpc = "idle"
    /\ ret' = Called("add_translation", original \in StoreKeys, err, ~ err)
    /\ IF err
       THEN UNCHANGED <<store, index, writer, reader>>
       ELSE /\ store' = InsertOrReplace(store, original, translated)
            /\ wpc' = IF original \in DOMAIN translations THEN "add_unlink" ELSE "add_install"
            /\ warg' = <<original, translated>>
            /\ wpre' = Live
            /\ Alongside
            /\ UNCHANGED index

\* _add_translation: the prior pairing of the original is taken out.
AddUnlink ==
    /\ UNCHANGED ext
    /\ wpc = "add_unlink"
    /\ SetIndex(Unlink(Live, translations[warg[1]]))
    /\ wpc' = "add_install"
    /\ UNCHANGED <<store, ret, warg, wpre, reader>>

\* _add_translation: the new pairing is installed and the lock released.
AddInstall ==
    /\ UNCHANGED ext
    /\ wpc = "add_install"
    /\ Commit(Install(Live, warg[1], warg[2]))
    /\ UNCHANGED <<store, ret>>

\* _remove_translation: the lock is taken and the row deleted.
RemoveBegin(original, err) ==
    /\ UNCHANGED ext
    /\ wpc = "idle"
    /\ ret' = Called("remove_translation", original \in StoreKeys, err, ~ err)
    /\ IF err
       THEN UNCHANGED <<store, index, writer, reader>>
       ELSE /\ store' = DeleteRow(store, original)
            /\ wpc' = "remove_unlink"
            /\ warg' = <<original>>
            /\ wpre' = Live
            /\ Alongside
            /\ UNCHANGED index

\* _remove_translation: the pairing is taken out and the lock released.
RemoveUnlink ==
    /\ UNCHANGED ext
    /\ wpc = "remove_unlink"
    /\ Commit(RemoveIndex(Live, warg[1]))
    /\ UNCHANGED <<store, ret>>

\* _purge_all_translations: the lock is taken and the rows deleted.
PurgeBegin(err) ==
    /\ UNCHANGED ext
    /\ wpc = "idle"
    /\ ret' = Called("purge_all_translations", store # << >>, err, ~ err)
    /\ IF err
       THEN UNCHANGED <<store, index, writer, reader>>
       ELSE /\ store' = << >>
            /\ wpc' = "purge_clear"
            /\ warg' = << >>
            /\ wpre' = Live
            /\ Alongside
            /\ UNCHANGED index

\* _purge_all_translations: the four structures are cleared, the lock released.
PurgeClear ==
    /\ UNCHANGED ext
    /\ wpc = "purge_clear"
    /\ Commit(EmptyIdx)
    /\ UNCHANGED <<store, ret>>

\* load_translations: the lock is taken, the four structures are replaced by
\* empty ones and the rows are fetched.
LoadBegin ==
    /\ UNCHANGED ext
    /\ wpc = "idle"
    /\ store # << >>
    /\ SetIndex(EmptyIdx)
    /\ wpc' = "load_rows"
    /\ warg' = store
    /\ wpre' = Live
    /\ ret' = [op |-> "load_translations"]
    /\ Alongside
    /\ UNCHANGED store

\* load_translations: one more row is installed.
LoadRow ==
    /\ UNCHANGED ext
    /\ wpc = "load_rows"
    /\ Len(warg) > 1
    /\ SetIndex(Install(Live, Head(warg)[1], Head(warg)[2]))
    /\ warg' = Tail(warg)
    /\ UNCHANGED <<store, ret, wpc, wpre, reader>>

\* load_translations: the last row is installed and the lock released.
LoadEnd ==
    /\ UNCHANGED ext
    /\ wpc = "load_rows"
    /\ Len(warg) = 1
    /\ Commit(Install(Live, Head(warg)[1], Head(warg)[2]))
    /\ UNCHANGED <<store, ret>>

\* The read operation in progress returns val.
Return(val) ==
    /\ ret' = [op |-> rcall.op, path |-> rcall.path, val |-> val, allowed |-> allowed,
               overlap |-> overlap]
    /\ rpc' = "idle"
    /\ rcall' = NoCall
    /\ racc' = {}
    /\ allowed' = {}
    /\ overlap' = 0

\* A read operation is called and runs up to its test of virtual_dirs.
ReadBegin(call) ==
    /\ UNCHANGED ext
    /\ rpc = "idle"
    /\ rcall' = call
    /\ allowed' = {Result(call, Committed)}
    /\ overlap' = IF wpc = "idle" THEN 0 ELSE 1
    /\ racc' = {}
    /\ rpc' = IF call.op = "readdir"
              THEN (IF call.path \in virtual_dirs THEN "vlist" ELSE "resolve")
              ELSE (IF IsPlex(call.path) \/ call.path \in virtual_dirs
                    THEN "synth" ELSE "resolve")
    /\ ret' = [op |-> "reading"]
    /\ UNCHANGED <<store, index, writer>>

\* getattr, access: the synthesized answer for a Plex entry or a virtual directory.
ReadSynth ==
    /\ UNCHANGED ext
    /\ rpc = "synth"
    /\ Return(IF rcall.op = "access" THEN Permit
              ELSE IF IsPlex(rcall.path) THEN PlexFile ELSE VirtualDir)
    /\ UNCHANGED <<store, index, writer>>

\* _translate_path under fs_lock, then the look at the backing tree.
ReadResolve ==
    /\ UNCHANGED ext
    /\ rpc = "resolve"
    /\ wpc = "idle"
    /\ CASE rcall.op = "getattr" ->
              Return(getattr_backing(reverse_translations, rcall.path))
         [] rcall.op = "access" ->
              Return(access_backing(reverse_translations, rcall.path, rcall.mode))
         [] rcall.op = "readdir" ->
              LET fp == full_path(BackingRoot, translate_path(reverse_translations, rcall.path))
              IN  /\ racc' = IF isdir(fp) THEN listdir(fp) ELSE {}
                  /\ rpc' = "hide"
                  /\ UNCHANGED <<ret, rcall, allowed, overlap>>
    /\ UNCHANGED <<store, index, writer>>

\* readdir: the backing entries are filtered against translations.
ReadHide ==
    /\ UNCHANGED ext
    /\ rpc = "hide"
    /\ racc' = {d \in racc : ~ should_hide(rcall.path \o <<d>>, translations)}
    /\ rpc' = "vchildren"
    /\ UNCHANGED <<store, index, ret, writer, rcall, allowed, overlap>>

\* readdir: the child names of a virtual directory are read from dir_structure.
ReadVlist ==
    /\ UNCHANGED ext
    /\ rpc = "vlist"
    /\ racc' = IF rcall.path \in DOMAIN dir_structure THEN dir_structure[rcall.path] ELSE {}
    /\ dir_structure' = IF rcall.path \in DOMAIN dir_structure THEN dir_structure
                        ELSE Put(dir_structure, rcall.path, {})
    /\ rpc' = "vchildren"
    /\ UNCHANGED <<store, translations, reverse_translations, virtual_dirs, ret, writer,
                   rcall, allowed, overlap>>

\* readdir: the Plex names and the virtual directories under path are added.
ReadVchildren ==
    /\ UNCHANGED ext
    /\ rpc = "vchildren"
    /\ Return({".", ".."} \cup racc \cup {".grab", ".plexmatch", ".plexignore"}
              \cup readdir_virtual_children(virtual_dirs, rcall.path))
    /\ UNCHANGED <<store, index, writer>>

NextConc ==
    \/ \E o \in Originals : \E t \in ConcTrans \ {o}, err \in BOOLEAN : AddBegin(o, t, err)
    \/ AddUnlink
    \/ AddInstall
    \/ \E o \in Originals, err \in BOOLEAN : RemoveBegin(o, err)
    \/ RemoveUnlink
    \/ \E err \in BOOLEAN : PurgeBegin(err)
    \/ PurgeClear
    \/ LoadBegin
    \/ LoadRow
    \/ LoadEnd
    \/ \E call \in ReadCalls : ReadBegin(call)
    \/ ReadSynth
    \/ ReadResolve
    \/ ReadHide
    \/ ReadVlist
    \/ ReadVchildren

SpecConc == Init /\ [][NextConc]_vars

\* ------------------------------------------------------------ serializer
\* Admin callers put a task (function, arguments, reply slot) on db_queue and
\* block on the reply slot; db_worker takes the tasks one at a time.

\* Deepest translated path an admin caller asks for in these runs.
MaxQDepth == 3
\* Number of tasks the admin callers enqueue in one run.
MaxCalls == 2

QTrans == {p \in TransPaths : Len(p) = MaxQDepth /\ p[Len(p)] = "a"}
              \cup {<<"a", "b">>, <<"b">>}

\* The tasks of the four public mutators; err: the store raises sqlite3.Error
\* when the task runs.
Task(func, args, err, c) == [func |-> func, args |-> args, err |-> err, caller |-> c]

TasksOf(c) ==
    {Task("add", <<o, t>>, e, c) : o \in Originals, t \in QTrans, e \in BOOLEAN}
    \cup {Task("remove", <<o>>, e, c) : o \in Originals, e \in BOOLEAN}
    \cup {Task("purge", << >>, e, c) : e \in BOOLEAN}
    \cup {Task("list", << >>, e, c) : e \in BOOLEAN}

\* (None, None, None)
Sentinel == [func |-> "None"]

\* _list_translations: the rows, or [] when the store raises.
_list_translations(err) ==
    /\ ret' = Called("list_translations", TRUE, err, IF err THEN << >> ELSE store)
    /\ UNCHANGED <<store, index>>

\* Queue.get taking the newest task instead of the oldest.
QueueGetLast(q) == [item |-> q[Len(q)], rest |-> SubSeq(q, 1, Len(q) - 1)]

\* Queue.get on a non-empty queue: the oldest task, and what stays queued.
QueueGet(q) == [item |-> Head(q), rest |-> Tail(q)]

OthersQ == <<writer, reader, watch, cache, snapshot, offsets>>

\* A public mutator: put the task, then block on result_queue.get().
Enqueue(c, task) ==
    /\ cpc[c] = "idle"
    /\ dpc # "joining"
    /\ Len(enq) < MaxCalls
    /\ task.func = "add" => task.args[1] # task.args[2]
    /\ db_queue' = Append(db_queue, task)
    /\ enq' = Append(enq, task)
    /\ cpc' = [cpc EXCEPT ![c] = "waiting"]
    /\ UNCHANGED <<store, index, ret, running, wk, reply, got, dpc, OthersQ>>

\* result_queue.get() returns: the public mutator returns the result.
Receive(c) ==
    /\ cpc[c] = "waiting"
    /\ reply[c] # NoReply
    /\ got' = [got EXCEPT ![c] = Append(@, reply[c].val)]
    /\ reply' = [reply EXCEPT ![c] = NoReply]
    /\ cpc' = [cpc EXCEPT ![c] = "idle"]
    /\ UNCHANGED <<store, index, ret, db_queue, running, wk, enq, dpc, OthersQ>>

\* db_worker: the test of `while self.running`.
WorkerLoop ==
    /\ wk = "top"
    /\ wk' = IF running THEN "get" ELSE "exited"
    /\ UNCHANGED <<store, index, ret, db_queue, running, cpc, reply, got, enq, dpc, OthersQ>>

\* db_worker: db_queue.get(), then break on the sentinel, or run the task
\* and put its result in the task's reply slot.
WorkerTask ==
    /\ wk = "get"
    /\ db_queue # << >>
    /\ LET g == QueueGet(db_queue)
           task == g.item
       IN  /\ db_queue' = g.rest
           /\ IF task = Sentinel
              THEN /\ wk' = "exited"
                   /\ UNCHANGED <<store, index, ret, reply>>
              ELSE /\ CASE task.func = "add" ->
                              _add_translation(task.args[1], task.args[2], task.err)
                        [] task.func = "remove" -> _remove_translation(task.args[1], task.err)
                        [] task.func = "purge" -> _purge_all_translations(task.err)
                        [] task.func = "list" -> _list_translations(task.err)
                   /\ reply' = [reply EXCEPT ![task.caller] = [kind |-> "result", val |-> ret'.val]]
                   /\ wk' = "top"
    /\ UNCHANGED <<running, cpc, got, enq, dpc, OthersQ>>

\* destroy(): self.running = False
DestroyFlag ==
    /\ dpc = "idle"
    /\ running' = FALSE
    /\ dpc' = "flagged"
    /\ UNCHANGED <<store, index, ret, db_queue, wk, cpc, reply, got, enq, OthersQ>>

\* destroy(): the sentinel is put on db_queue; the joins follow.
DestroySentinel ==
    /\ dpc = "flagged"
    /\ db_queue' = Append(db_queue, Sentinel)
    /\ dpc' = "joining"
    /\ UNCHANGED <<store, index, ret, running, wk, cpc, reply, got, enq, OthersQ>>

NextQueue ==
    \/ \E c \in Callers : \E task \in TasksOf(c) : Enqueue(c, task)
    \/ \E c \in Callers : Receive(c)
    \/ WorkerLoop
    \/ WorkerTask
    \/ DestroyFlag
    \/ DestroySentinel

SpecQueue == Init /\ [][NextQueue]_vars

\* The threads are scheduled fairly: db_worker keeps running while it can
\* take a step, and a caller whose reply slot is filled returns.
SpecQueueFair ==
    SpecQueue /\ WF_vars(WorkerLoop) /\ WF_vars(WorkerTask)
              /\ \A c \in Callers : WF_vars(Receive(c))

\* ---------------------------------------------------------------- watcher
\* check_for_updates polls the store file's mtime and rebuilds the index when
\* it has grown; a sibling process writes the store; the serializer thread
\* answers list_translations.  The rebuild and the listing both go through
\* self.cursor, and _list_translations does not take fs_lock.

\* Number of times the sibling process writes the store in one run.
MaxMtime == 3

WTrans == {<<"a", "b">>, <<"b">>}

OthersW == <<writer, reader, serializer, cache, snapshot, offsets>>

\* A sibling process upserts a row; the file's mtime grows.
ExternalUpsert(o, t) ==
    /\ db_mtime <= MaxMtime
    /\ o # t
    /\ store' = InsertOrReplace(store, o, t)
    /\ db_mtime' = db_mtime + 1
    /\ UNCHANGED <<index, ret, last_mtime, upc, wm, cursor, lpc, OthersW>>

\* A sibling process deletes a row; the file's mtime grows.
ExternalDelete(o) ==
    /\ db_mtime <= MaxMtime
    /\ o \in StoreKeys
    /\ store' = DeleteRow(store, o)
    /\ db_mtime' = db_mtime + 1
    /\ UNCHANGED <<index, ret, last_mtime, upc, wm, cursor, lpc, OthersW>>

\* check_for_updates: mtime = getmtime(db_file); if mtime > self.last_mtime
WatchProbe ==
    /\ upc = "probe"
    /\ wm' = db_mtime
    /\ upc' = IF db_mtime > last_mtime THEN "select" ELSE "wait"
    /\ UNCHANGED <<store, index, ret, last_mtime, db_mtime, cursor, lpc, OthersW>>

\* load_translations: the four structures are emptied, the SELECT is executed.
WatchSelect ==
    /\ upc = "select"
    /\ SetIndex(EmptyIdx)
    /\ cursor' = store
    /\ upc' = "fetch"
    /\ UNCHANGED <<store, ret, last_mtime, db_mtime, wm, lpc, OthersW>>

\* load_translations: self.cursor.fetchall() and the loop over its rows.
WatchFetch ==
    /\ upc = "fetch"
    /\ SetIndex(LoadRows(Live, cursor))
    /\ cursor' = << >>
    /\ upc' = "record"
    /\ ret' = [op |-> "load_translations"]
    /\ UNCHANGED <<store, last_mtime, db_mtime, wm, lpc, OthersW>>

\* check_for_updates: self.last_mtime = mtime
WatchRecord ==
    /\ upc = "record"
    /\ last_mtime' = wm
    /\ upc' = "wait"
    /\ UNCHANGED <<store, index, ret, db_mtime, wm, cursor, lpc, OthersW>>

\* check_for_updates: update_event.wait(5) returns.
WatchWake ==
    /\ upc = "wait"
    /\ upc' = "probe"
    /\ UNCHANGED <<store, index, ret, last_mtime, db_mtime, wm, cursor, lpc, OthersW>>

\* _list_translations: self.cursor.execute(SELECT ...)
ListExecute ==
    /\ lpc = "idle"
    /\ cursor' = store
    /\ lpc' = "fetch"
    /\ UNCHANGED <<store, index, ret, last_mtime, db_mtime, upc, wm, OthersW>>

\* _list_translations: return self.cursor.fetchall()
ListFetch ==
    /\ lpc = "fetch"
    /\ ret' = Called("list_translations", TRUE, FALSE, cursor)
    /\ cursor' = << >>
    /\ lpc' = "idle"
    /\ UNCHANGED <<store, index, last_mtime, db_mtime, upc, wm, OthersW>>

NextWatch ==
    \/ \E o \in Originals, t \in WTrans : ExternalUpsert(o, t)
    \/ \E o \in Originals : ExternalDelete(o)
    \/ WatchProbe
    \/ WatchSelect
    \/ WatchFetch
    \/ WatchRecord
    \/ WatchWake
    \/ ListExecute
    \/ ListFetch

SpecWatch == Init /\ [][NextWatch]_vars

\* ------------------------------------------------------ file-handle cache
\* Capacity the cache is configured with in these runs (max_handles).
MaxHandles == 2

\* os.path.getmtime of the backing files: z is the newest file, y the oldest.
getmtime(fp) ==
    CASE fp = BackingRoot \o <<"m", "x">> -> 2
      [] fp = BackingRoot \o <<"m", "y">> -> 1
      [] fp = BackingRoot \o <<"m", "z">> -> 3
      [] OTHER -> 0

CachedPaths(h) == {h[i].path : i \in 1..Len(h)}

Entry(h, path) == h[CHOOSE i \in 1..Len(h) : h[i].path = path]

\* handles[path] = (reader, touch): a new key goes last, a known key keeps its place.
SetEntry(h, path, rd, touch) ==
    LET e == [path |-> path, reader |-> rd, touch |-> touch]
    IN  IF path \in CachedPaths(h)
        THEN [i \in 1..Len(h) |-> IF h[i].path = path THEN e ELSE h[i]]
        ELSE Append(h, e)

DelEntry(h, path) == SelectSeq(h, LAMBDA e : e.path # path)

\* min(self.handles, key=lambda k: self.handles[k][1]): the first key, in
\* insertion order, among those with the smallest last touch.
OldestPath(h) ==
    h[CHOOSE i \in 1..Len(h) :
        /\ \A j \in 1..Len(h) : h[i].touch <= h[j].touch
        /\ \A j \in 1..(i - 1) : h[j].touch # h[i].touch].path

\* FileHandleCache.close on the cache c = [h, rd]: handles and open readers.
CacheClose(c, path) ==
    IF path \in CachedPaths(c.h)
    THEN [h |-> DelEntry(c.h, path), rd |-> c.rd \ {Entry(c.h, path).reader}]
    ELSE c

\* FileHandleCache.get run by thread t without interruption; ok: open() found
\* the file.  The eviction comes before the open.
CacheGet(c, path, t) ==
    IF path \in CachedPaths(c.h)
    THEN [h |-> SetEntry(c.h, path, Entry(c.h, path).reader, getmtime(path)),
          rd |-> c.rd, ok |-> TRUE]
    ELSE LET c1 == IF Len(c.h) >= MaxHandles THEN CacheClose(c, OldestPath(c.h)) ELSE c
         IN  IF path \in BackingFiles
             THEN [h |-> SetEntry(c1.h, path, <<path, t>>, getmtime(path)),
                   rd |-> c1.rd \cup {<<path, t>>}, ok |-> TRUE]
             ELSE [h |-> c1.h, rd |-> c1.rd, ok |-> FALSE]

\* _get_full_path behind its lru_cache.
get_full_path(path) ==
    IF path \in DOMAIN memo THEN memo[path]
    ELSE full_path(BackingRoot, translate_path(reverse_translations, path))

\* The latest-get order after a get of path that left the paths of h cached.
Touch(path, h) ==
    SelectSeq(touched, LAMBDA q : q # path /\ q \in CachedPaths(h))
        \o (IF path \in CachedPaths(h) THEN <<path>> ELSE << >>)

\* Presented paths the kernel binding reads, opens and releases in these runs.
FilePaths == {<<"m", "x">>, <<"m", "y">>, <<"m", "z">>, <<"b">>, <<"b", ".grab">>}
\* Translations the admin surface installs in these runs.
FileOriginals == {<<"m", "x">>, <<"m", "y">>}
FileTrans == {<<"b">>}

OthersF == <<writer, reader, serializer, watch, snapshot, offsets>>

\* read and open from the resolution on: the cached reader is fetched.
Fetch(op, path) ==
    LET fp == get_full_path(path)
        g  == CacheGet([h |-> handles, rd |-> readers], fp, "t1")
    IN  /\ memo' = Put(memo, path, fp)
        /\ handles' = g.h
        /\ readers' = g.rd
        /\ touched' = Touch(fp, g.h)
        /\ ret' = [op |-> op, path |-> path, fp |-> fp,
                   val |-> IF g.ok THEN Permit ELSE ENOENT]
        /\ UNCHANGED <<store, index, tpc, targ, OthersF>>

Read(path) ==
    IF IsPlex(path)
    THEN /\ ret' = [op |-> "read", path |-> path, val |-> << >>]
         /\ UNCHANGED <<store, index, cache, OthersF>>
    ELSE Fetch("read", path)

Open(path) == Fetch("open", path)

Release(path) ==
    LET fp == get_full_path(path)
        c  == CacheClose([h |-> handles, rd |-> readers], fp)
    IN  /\ memo' = Put(memo, path, fp)
        /\ handles' = c.h
        /\ readers' = c.rd
        /\ touched' = SelectSeq(touched, LAMBDA q : q # fp)
        /\ ret' = [op |-> "release", path |-> path, fp |-> fp, val |-> Permit]
        /\ UNCHANGED <<store, index, tpc, targ, OthersF>>

NextFiles ==
    \/ \E o \in FileOriginals, t \in FileTrans : AddTranslation(o, t, FALSE)
    \/ \E o \in FileOriginals : RemoveTranslation(o, FALSE)
    \/ \E p \in FilePaths : Read(p)
    \/ \E p \in FilePaths : Open(p)
    \/ \E p \in FilePaths : Release(p)

SpecFiles == Init /\ [][NextFiles]_vars

\* FileHandleCache.get and close run by two VFS threads at once, statement
\* by statement: the cache takes no lock.

\* get: `if path not in self.handles`
GetBegin(t, path) ==
    /\ tpc[t] = "idle"
    /\ targ' = [targ EXCEPT ![t] = path]
    /\ tpc' = [tpc EXCEPT ![t] = IF path \in CachedPaths(handles) THEN "touch" ELSE "cap"]
    /\ UNCHANGED <<store, index, ret, handles, readers, memo, touched, OthersF>>

\* get: `if len(self.handles) >= self.max_handles`: close the oldest
GetCap(t) ==
    /\ tpc[t] = "cap"
    /\ LET c == IF Len(handles) >= MaxHandles
                THEN CacheClose([h |-> handles, rd |-> readers], OldestPath(handles))
                ELSE [h |-> handles, rd |-> readers]
       IN  handles' = c.h /\ readers' = c.rd
    /\ tpc' = [tpc EXCEPT ![t] = "open"]
    /\ UNCHANGED <<store, index, ret, memo, touched, targ, OthersF>>

\* get: file = open(path, mode)
GetOpen(t) ==
    /\ tpc[t] = "open"
    /\ readers' = readers \cup {<<targ[t], t>>}
    /\ tpc' = [tpc EXCEPT ![t] = "insert"]
    /\ UNCHANGED <<store, index, ret, handles, memo, touched, targ, OthersF>>

\* get: self.handles[path] = (BufferedReader(file), 0); a reader this
\* replaces loses its last reference and is closed.
GetInsert(t) ==
    /\ tpc[t] = "insert"
    /\ handles' = SetEntry(handles, targ[t], <<targ[t], t>>, 0)
    /\ readers' = IF targ[t] \in CachedPaths(handles)
                  THEN (readers \ {Entry(handles, targ[t]).reader}) \cup {<<targ[t], t>>}
                  ELSE readers
    /\ tpc' = [tpc EXCEPT ![t] = "touch"]
    /\ UNCHANGED <<store, index, ret, memo, touched, targ, OthersF>>

\* get: the last touch is set and the reader returned; KeyError (EINVAL
\* through the error guard) when another thread has removed the entry.
GetTouch(t) ==
    /\ tpc[t] = "touch"
    /\ IF targ[t] \in CachedPaths(handles)
       THEN /\ handles' = SetEntry(handles, targ[t], Entry(handles, targ[t]).reader,
                                   getmtime(targ[t]))
            /\ ret' = [op |-> "get", fp |-> targ[t], val |-> Permit]
       ELSE /\ UNCHANGED handles
            /\ ret' = [op |-> "get", fp |-> targ[t], val |-> EINVAL]
    /\ tpc' = [tpc EXCEPT ![t] = "idle"]
    /\ targ' = [targ EXCEPT ![t] = << >>]
    /\ UNCHANGED <<store, index, readers, memo, touched, OthersF>>

\* close, called by release
CloseCall(t, path) ==
    /\ tpc[t] = "idle"
    /\ LET c == CacheClose([h |-> handles, rd |-> readers], path)
       IN  handles' = c.h /\ readers' = c.rd
    /\ ret' = [op |-> "close", fp |-> path, val |-> Permit]
    /\ UNCHANGED <<store, index, memo, touched, tpc, targ, OthersF>>

NextCacheConc ==
    \/ \E t \in Threads, fp \in MediaFiles : GetBegin(t, fp)
    \/ \E t \in Threads : GetCap(t)
    \/ \E t \in Threads : GetOpen(t)
    \/ \E t \in Threads : GetInsert(t)
    \/ \E t \in Threads : GetTouch(t)
    \/ \E t \in Threads, fp \in MediaFiles : CloseCall(t, fp)

SpecCacheConc == Init /\ [][NextCacheConc]_vars

\* ------------------------------------------------------ concurrent reads
\* read run by two VFS threads at once: the reader comes from the cache, then
\* file.seek(offset) and file.read(size) are two calls on the shared reader,
\* outside any lock.  A release may close the reader in between.

\* Largest offset and size a read asks for in these runs.
MaxOffset == 2
MaxSize == 1

\* The bytes of the backing file <root>/m/x.
FileBytes == <<"b0", "b1", "b2", "b3">>

\* read up to the fetch of the reader: _get_full_path and FileHandleCache.get.
\* A reader that open() creates is a new object, at position 0.
ReadGet(t, path, size, offset) ==
    LET fp == get_full_path(path)
        n  == CHOOSE i \in 1..Cardinality(Threads) :
                /\ <<fp, i>> \notin readers
                /\ \A u \in Threads : reading[u] = << >> \/ reading[u].reader # <<fp, i>>
                /\ \A j \in 1..(i - 1) :
                      \/ <<fp, j>> \in readers
                      \/ \E u \in Threads : reading[u] # << >> /\ reading[u].reader = <<fp, j>>
        g  == CacheGet([h |-> handles, rd |-> readers], fp, n)
    IN  /\ tpc[t] = "idle"
        /\ memo' = Put(memo, path, fp)
        /\ handles' = g.h
        /\ readers' = g.rd
        /\ touched' = Touch(fp, g.h)
        /\ pos' = IF fp \in CachedPaths(handles) THEN pos ELSE Put(pos, <<fp, n>>, 0)
        /\ reading' = [reading EXCEPT ![t] = [path |-> path, size |-> size, offset |-> offset,
                                        reader |-> Entry(g.h, fp).reader]]
        /\ tpc' = [tpc EXCEPT ![t] = "seek"]
        /\ UNCHANGED <<store, index, ret, targ, writer, reader, serializer, watch, snapshot>>

\* file.seek(offset); ValueError on a closed reader, EINVAL through the error guard.
ReadSeek(t) ==
    /\ tpc[t] = "seek"
    /\ IF reading[t].reader \in readers
       THEN /\ pos' = [pos EXCEPT ![reading[t].reader] = reading[t].offset]
            /\ tpc' = [tpc EXCEPT ![t] = "read"]
            /\ UNCHANGED <<ret, reading>>
       ELSE /\ ret' = [op |-> "read", path |-> reading[t].path, size |-> reading[t].size,
                       offset |-> reading[t].offset, errno |-> EINVAL, val |-> << >>]
            /\ tpc' = [tpc EXCEPT ![t] = "idle"]
            /\ reading' = [reading EXCEPT ![t] = << >>]
            /\ UNCHANGED pos
    /\ UNCHANGED <<store, index, handles, readers, memo, touched, targ,
                   writer, reader, serializer, watch, snapshot>>

\* return file.read(size): the bytes from the reader's position on.
ReadFile(t) ==
    /\ tpc[t] = "read"
    /\ IF reading[t].reader \in readers
       THEN LET from == pos[reading[t].reader]
                upto == IF from + reading[t].size <= Len(FileBytes)
                        THEN from + reading[t].size ELSE Len(FileBytes)
            IN  /\ ret' = [op |-> "read", path |-> reading[t].path, size |-> reading[t].size,
                           offset |-> reading[t].offset, errno |-> Permit,
                           val |-> SubSeq(FileBytes, from + 1, upto)]
                /\ pos' = [pos EXCEPT ![reading[t].reader] = IF from <= upto THEN upto ELSE from]
       ELSE /\ ret' = [op |-> "read", path |-> reading[t].path, size |-> reading[t].size,
                       offset |-> reading[t].offset, errno |-> EINVAL, val |-> << >>]
            /\ UNCHANGED pos
    /\ tpc' = [tpc EXCEPT ![t] = "idle"]
    /\ reading' = [reading EXCEPT ![t] = << >>]
    /\ UNCHANGED <<store, index, handles, readers, memo, touched, targ,
                   writer, reader, serializer, watch, snapshot>>

NextReadConc ==
    \/ \E t \in Threads, size \in 1..MaxSize, offset \in 0..MaxOffset :
          ReadGet(t, <<"m", "x">>, size, offset)
    \/ \E t \in Threads : ReadSeek(t)
    \/ \E t \in Threads : ReadFile(t)
    \/ Release(<<"m", "x">>)

SpecReadConc == Init /\ [][NextReadConc]_vars

\* -------------------------------------------------------- snapshot worker
\* periodic_backup copies the store to translations_backup_<timestamp>.db and
\* prunes the directory.  A timestamp is the number of its second: the names
\* have a fixed width, so their lexicographic order is the order of the numbers.

\* backups[:-24]
Keep == 24
\* Number of snapshot cycles in one run.
MaxCycles == 26
\* Number of times the local clock skips a second between two cycles.
MaxGaps == 2

Max(S) == CHOOSE x \in S : \A y \in S : y <= x
Now == IF stamps = {} THEN 0 ELSE Max(stamps)
Gaps == Now - Cardinality(stamps)

\* time.strftime at the next cycle: the second after the last snapshot's, the
\* same second again (the local clock was set back), or one second further.
NextStamps ==
    {Now + 1} \cup (IF Now > 0 THEN {Now} ELSE {})
              \cup (IF Gaps < MaxGaps THEN {Now + 2} ELSE {})

\* Pruning that keeps the first names of the sorted listing: backups[24:].
OldBackupsKeepFirst(files) == {f \in files : Cardinality({g \in files : g < f}) >= Keep}

\* sorted(...)[:-24]: every file but the last 24 of the sorted listing.
OldBackups(files) == {f \in files : Cardinality({g \in files : g > f}) >= Keep}

OthersB == <<store, index, ret, writer, reader, serializer, watch, cache, offsets>>

\* backup_database: shutil.copy2 to the file named after the timestamp.
BackupCopy(ts) ==
    /\ bpc = "sleep"
    /\ cycles < MaxCycles
    /\ backups' = backups \cup {ts}
    /\ stamps' = stamps \cup {ts}
    /\ deleted' = {}
    /\ bpc' = "prune"
    /\ UNCHANGED <<cycles, OthersB>>

\* backup_database: the listing is sorted and the old files are removed.
BackupPrune ==
    /\ bpc = "prune"
    /\ deleted' = OldBackups(backups)
    /\ backups' = backups \ OldBackups(backups)
    /\ cycles' = cycles + 1
    /\ bpc' = "sleep"
    /\ UNCHANGED <<stamps, OthersB>>

NextSnapshot ==
    \/ \E ts \in NextStamps : BackupCopy(ts)
    \/ BackupPrune

SpecSnapshot == Init /\ [][NextSnapshot]_vars

\* ------------------------------------------------------------------ claims
MutOps == {"add_translation", "remove_translation", "purge_all_translations"}

\* Presented paths the claims about reads quantify over.
PresentedPaths ==
    AllPaths \cup ReadPaths \cup {x \o <<n>> : x \in Originals, n \in Names}

\* C1: every store row (o,t) has translations[o] = t and reverse_translations[t] = o,
\* and every reverse entry is the mirror of a forward entry.
C1_MapsMirrorStore ==
    /\ \A i \in 1..Len(store) :
          LET o == store[i][1]
              t == store[i][2]
          IN  /\ o \in DOMAIN translations /\ translations[o] = t
              /\ t \in DOMAIN reverse_translations /\ reverse_translations[t] = o
    /\ \A t \in DOMAIN reverse_translations :
          /\ reverse_translations[t] \in DOMAIN translations
          /\ translations[reverse_translations[t]] = t

\* C2: every proper non-root ancestor of every translated path is a virtual directory.
C2_AncestorsAreVirtual ==
    \A o \in DOMAIN translations :
        \A A \in ProperAncestors(translations[o]) : A \in virtual_dirs

\* C3: getattr of a shadowed path (an original key, or a path under one) that is
\* not a Plex-compatibility entry fails with ENOENT, also when its backing file exists.
C3_ShadowedGetattrENOENT ==
    \A X \in PresentedPaths :
        (should_hide(X, translations) /\ ~ IsPlex(X)) => getattr(Live, X) = ENOENT

\* C4: readdir of an original's parent never lists the original's basename.
C4_OriginalNotListed ==
    \A o \in DOMAIN translations : basename(o) \notin readdir(Live, dirname(o))

\* C5: for every translation (o,t), readdir(dirname(t)) lists basename(t) and getattr
\* of every proper non-root ancestor of t is a synthesized directory entry.
C5_TranslatedVisible ==
    \A o \in DOMAIN translations :
        LET t == translations[o]
        IN  /\ basename(t) \in readdir(Live, dirname(t))
            /\ \A A \in ProperAncestors(t) : getattr(Live, A) = VirtualDir

\* C6: rebuilding the index from the store reproduces the live index.
C6_RebuildEqualsLive == Rebuilt(store) = Live

\* C7: every virtual directory is a proper ancestor of some currently translated path.
C7_NoOrphanVirtualDir ==
    \A A \in virtual_dirs :
        \E o \in DOMAIN translations : StartsWithDir(translations[o], A)

C9_StoreErrorLeavesIndex ==
    [][(ret'.op \in MutOps /\ ret'.err) => (ret'.val = FALSE /\ UNCHANGED index)]_vars

C9_Witness ==
    /\ ret.op \in MutOps /\ ret.err /\ ret.val = FALSE
    /\ DOMAIN translations # {}

KeysAgree == StoreKeys = DOMAIN translations

\* C15: access of a path that is neither a Plex-compatibility entry nor a virtual
\* directory fails with ENOENT when its backing file is missing and with EACCES
\* when the backing file exists and does not grant the requested mode.
C15_AccessDeniedIsEACCES ==
    \A P \in PresentedPaths, m \in AccessModes :
        (~ IsPlex(P) /\ P \notin virtual_dirs) =>
            LET fp == full_path(BackingRoot, translate_path(reverse_translations, P))
            IN  /\ ~ exists(fp) => access(Live, P, m) = ENOENT
                /\ (exists(fp) /\ ~ os_access(fp, m)) => access(Live, P, m) = EACCES

\* The reverse-map keys among the proper non-root ancestors of P.
TranslatedAncestors(rev, P) == ProperAncestors(P) \cap DOMAIN rev

\* The nearest of them: the longest one.
NearestTranslatedAncestor(rev, P) ==
    CHOOSE A \in TranslatedAncestors(rev, P) :
        \A B \in TranslatedAncestors(rev, P) : Len(B) <= Len(A)

\* C19: _translate_path returns reverse[P] when P is a reverse-map key; otherwise
\* reverse[A] joined with the suffix of P beyond A, for the nearest proper non-root
\* ancestor A of P that is a reverse-map key; otherwise P itself.
C19_ResolutionByNearestAncestor ==
    \A P \in PresentedPaths :
        LET R == translate_path(reverse_translations, P)
        IN  IF P \in DOMAIN reverse_translations
            THEN R = reverse_translations[P]
            ELSE IF TranslatedAncestors(reverse_translations, P) # {}
                 THEN LET A == NearestTranslatedAncestor(reverse_translations, P)
                      IN  R = reverse_translations[A] \o SubSeq(P, Len(A) + 1, Len(P))
                 ELSE R = P

\* Two ancestors of a presented path are reverse-map keys, the path itself is not,
\* and the two map to different originals.
C19_Witness ==
    \E P \in PresentedPaths :
        /\ P \notin DOMAIN reverse_translations
        /\ \E A, B \in TranslatedAncestors(reverse_translations, P) :
              Len(A) < Len(B) /\ reverse_translations[A] # reverse_translations[B]

\* ------------------------------------------------------ claims, serializer
\* One task applied to a store and an index, its result appended to results.
ApplyTask(st, task) ==
    LET done(val) == Append(st.results, <<task.caller, val>>)
    IN  IF task.err
        THEN [st EXCEPT !.results = done(IF task.func = "list" THEN << >> ELSE FALSE)]
        ELSE CASE task.func = "add" ->
                    [store |-> InsertOrReplace(st.store, task.args[1], task.args[2]),
                     idx |-> AddIndex(st.idx, task.args[1], task.args[2]),
                     results |-> done(TRUE)]
               [] task.func = "remove" ->
                    [store |-> DeleteRow(st.store, task.args[1]),
                     idx |-> RemoveIndex(st.idx, task.args[1]),
                     results |-> done(TRUE)]
               [] task.func = "purge" ->
                    [store |-> << >>, idx |-> EmptyIdx, results |-> done(TRUE)]
               [] task.func = "list" -> [st EXCEPT !.results = done(st.store)]

\* The tasks applied one after the other, in the order of the sequence.
RECURSIVE ApplyInOrder(_, _)
ApplyInOrder(st, tasks) ==
    IF tasks = << >> THEN st
    ELSE ApplyInOrder(ApplyTask(st, Head(tasks)), Tail(tasks))

Fresh == [store |-> << >>, idx |-> EmptyIdx, results |-> << >>]

\* The tasks still queued, and the tasks db_worker has run: with the tasks
\* taken in enqueue order these are the first ones enqueued.
Pending == Len(SelectSeq(db_queue, LAMBDA t : t # Sentinel))
Executed == SubSeq(enq, 1, Len(enq) - Pending)

\* The results among rs that belong to caller c, in order.
ResultsFor(c, rs) ==
    LET mine == SelectSeq(rs, LAMBDA r : r[1] = c)
    IN  [i \in 1..Len(mine) |-> mine[i][2]]

\* What caller c has been handed: the results returned and the one in its slot.
Handed(c) == got[c] \o (IF reply[c] = NoReply THEN << >> ELSE <<reply[c].val>>)

\* C11: with several callers enqueueing concurrently, the store and the index
\* are what applying the executed tasks one after the other in enqueue order
\* gives, and each caller is handed the results of its own tasks.
C11_SerializedInEnqueueOrder ==
    LET st == ApplyInOrder(Fresh, Executed)
    IN  /\ store = st.store
        /\ Live = st.idx
        /\ \A c \in Callers : Handed(c) = ResultsFor(c, st.results)

\* Two callers had their tasks queued together, both tasks have run, and
\* running them in the other order would have left another store.
C11_Witness ==
    /\ Len(enq) = 2 /\ Executed = enq
    /\ enq[1].caller # enq[2].caller
    /\ \A c \in Callers : cpc[c] = "waiting" /\ reply[c] # NoReply
    /\ ApplyInOrder(Fresh, <<enq[2], enq[1]>>).store # store

\* C12: every public-mutator call that has enqueued its task before destroy()
\* enqueues the sentinel eventually gets its reply and returns.
C12_EveryCallReturns ==
    \A c \in Callers : (cpc[c] = "waiting") ~> (cpc[c] = "idle")

\* The run is add(o,t') then add(o,t), t # t', both successful and both executed.
Repointed ==
    /\ Len(enq) = 2 /\ Executed = enq
    /\ \A i \in 1..2 : enq[i].func = "add" /\ ~ enq[i].err
    /\ enq[1].args[1] = enq[2].args[1]
    /\ enq[1].args[2] # enq[2].args[2]

\* C16: after add(o,t') then add(o,t) on an empty store, t # t', the reverse map
\* is exactly {t -> o}, t' is in neither the reverse map nor the child set at
\* dirname(t'), and the virtual directories are exactly the proper non-root
\* ancestors of t.
C16_RepointLeavesOnlyNewPath ==
    Repointed =>
        LET o  == enq[2].args[1]
            t  == enq[2].args[2]
            t1 == enq[1].args[2]
        IN  /\ reverse_translations = Put(EmptyMap, t, o)
            /\ t1 \notin DOMAIN reverse_translations
            /\ dirname(t1) \in DOMAIN dir_structure
                  => basename(t1) \notin dir_structure[dirname(t1)]
            /\ virtual_dirs = ProperAncestors(t)

\* A re-point from a path two directories deep to a path one directory deep:
\* one ancestor is shared, one is orphaned.
C16_Witness ==
    /\ Repointed
    /\ ProperAncestors(enq[2].args[2]) # {}
    /\ ProperAncestors(enq[1].args[2]) \ ProperAncestors(enq[2].args[2]) # {}

\* --------------------------------------------------------- claims, watcher
\* The forward map a store with these rows stands for.
RowsMap(rows) == [o \in {rows[i][1] : i \in 1..Len(rows)} |->
                     (CHOOSE r \in {rows[i] : i \in 1..Len(rows)} : r[1] = o)[2]]

\* C13: the watcher records a store mtime as observed only once it has rebuilt
\* the index from the store as of that mtime: whenever the recorded mtime is
\* the store's current one and the watcher is between rebuilds, the forward
\* map equals the store's rows.
C13_ObservedMeansRebuilt ==
    (last_mtime = db_mtime /\ upc \in {"wait", "probe"}) => translations = RowsMap(store)

\* ------------------------------------------------- claims, reads and handles
\* C18: the backing path read, open and release operate on is the resolution
\* of the presented path under the index as it is now.
C18_OperatesOnCurrentResolution ==
    (ret.op \in {"read", "open", "release"} /\ "fp" \in DOMAIN ret) =>
        ret.fp = full_path(BackingRoot, translate_path(reverse_translations, ret.path))

\* C20: a get that evicts an entry evicts the one whose latest get is the
\* oldest among the cached entries.
C20_EvictsLeastRecentlyTouched ==
    [][\A q \in CachedPaths(handles) :
          (ret'.op \in {"read", "open"} /\ q \notin CachedPaths(handles'))
              => q = Head(touched)]_vars

\* C14: the cache never holds more entries than its capacity, and no backing
\* path has more than one open reader.
C14_CacheWithinCapacity ==
    /\ Len(handles) <= MaxHandles
    /\ \A fp \in BackingFiles : Cardinality({r \in readers : r[1] = fp}) <= 1

\* ------------------------------------------------- claims, snapshot worker
\* C17: after every completed snapshot cycle at most 24 backup files remain
\* and every file the cycle deleted sorts before every file it kept; after 25
\* cycles with distinct timestamps exactly 24 remain and the one file deleted
\* is the oldest.
C17_RetentionKeepsNewest ==
    bpc = "sleep" =>
        /\ Cardinality(backups) <= Keep
        /\ \A d \in deleted, k \in backups : d < k
        /\ (cycles = Keep + 1 /\ Cardinality(stamps) = Keep + 1) =>
              /\ Cardinality(backups) = Keep
              /\ deleted = {CHOOSE x \in stamps : \A y \in stamps : x <= y}
              /\ backups = stamps \ deleted

\* The 25th cycle with 25 distinct timestamps has completed, a second was
\* skipped on the way.
C17_Witness ==
    /\ bpc = "sleep" /\ cycles = Keep + 1 /\ Cardinality(stamps) = Keep + 1
    /\ Gaps > 0 /\ deleted # {}

\* ------------------------------------------------------ claims, read side
\* C21: getattr, access and readdir leave the forward map, the reverse map,
\* the directory structure and the virtual-dir set unchanged for every path,
\* a virtual directory without a child-set entry of its own included.
C21_ReadsLeaveIndexUnchanged ==
    [][ret'.op \in {"getattr", "access", "readdir"} => UNCHANGED index]_vars

\* C22: every read that two threads run at once on one presented path, or
\* that runs while the path is released, returns the bytes of the backing
\* file from its own offset on, up to size bytes, and does not fail on a
\* closed reader.
C22_ReadReturnsOwnOffset ==
    (ret.op = "read" /\ "offset" \in DOMAIN ret) =>
        /\ ret.errno = Permit
        /\ ret.val = SubSeq(FileBytes, ret.offset + 1,
                            IF ret.offset + ret.size <= Len(FileBytes)
                            THEN ret.offset + ret.size ELSE Len(FileBytes))
====
